---- MODULE Spec2Model ----
(***************************************************************************)
(* Account balance maintenance of finanpy: the Transaction create, update  *)
(* and delete views, the TransactionForm validation in front of them, the  *)
(* pre_save / post_save / post_delete signal handlers that adjust          *)
(* Account.balance, and the account edit view.                             *)
(*                                                                         *)
(* Money is a Decimal with two places; it is modelled as an integer number *)
(* of cents (1000.00 is 100000), which is exact for + , - and comparison.  *)
(*                                                                         *)
(* The project settings (src/core/settings/development.py:19-24,           *)
(* production.py:72-77) define DATABASES without ATOMIC_REQUESTS, so a     *)
(* request runs in autocommit mode: every SQL statement commits on its own *)
(* unless the code opens transaction.atomic().  One action of the model is *)
(* one such committed unit, or a step that only reads.                     *)
(***************************************************************************)
EXTENDS Integers, FiniteSets, Sequences, TLC

\* ---- bounds of the model ----
MaxAmount == 2          \* transaction amounts are 1 or MaxAmount cents
MaxInit == 1            \* accounts are created with 0 or MaxInit cents
MaxTx == 2              \* primary keys handed out by the transactions table
MaxReq == 3             \* requests started in one behaviour, one at a time
MaxConc == 2            \* requests started in one behaviour, interleaved
MaxCat == 5             \* primary keys handed out by the categories table
MaxForm == 3            \* requests started in one behaviour, every form
MaxDel == 3             \* requests started in one behaviour, with account deletion
MaxCalls == 3           \* calls of generate_analysis_for_user in one behaviour
MaxTicks == 2           \* clock advances in one behaviour
MaxEdit == 2            \* edit requests started in one behaviour, interleaved
MaxCents == 30          \* amounts handed to _calculate_delta, either sign

Accounts == {"a1", "a2", "a3"}
Procs == {"r1", "r2"}           \* request workers of the server
SeqProcs == {"r1"}              \* one worker: requests one at a time
Descriptions == {"d1", "d2"}
FormAccounts == {"a1", "a2"}    \* accounts the requests select
Bystander == "a3"               \* an account no request selects
ConcDescriptions == {"d1"}
INCOME == "INCOME"
EXPENSE == "EXPENSE"
Types == {INCOME, EXPENSE}
Amounts == {1, MaxAmount}
InitBalances == {0, MaxInit}
PostedBalances == {0 - 1, 0, MaxInit}
TxIds == 1 .. MaxTx
Users == {1, 2}                 \* primary keys of the registered users
CatIds == 1 .. MaxCat
OwnedAccounts == {"a1", Bystander}  \* one account of each user
FormAmounts == {1}
FormUser == 1                   \* the user who owns the selectable accounts
OtherTypes == {"TRANSFER", "income", ""}  \* values that are not a type
DeltaAmounts == (0 - MaxCents) .. MaxCents

\* the scenario of the specification, in cents
ScenarioAccount == "a1"
Cents(units) == units * 100
ScenarioBalance == Cents(1000)
ScenarioIncome == Cents(500)
ScenarioExpense == Cents(200)
ScenarioAmounts == {ScenarioIncome, ScenarioExpense}

VARIABLES
    balance,    \* Account.balance column, by account primary key
    rows,       \* transactions table: primary key -> row
    nextId,     \* next primary key of the transactions table
    pc,         \* position of each request
    kind,       \* which view the request runs
    inst,       \* the in-memory Transaction instance of the request
    previous,   \* `previous` read by update_balance_on_update
    created,    \* the `created` flag handed to post_save
    outcome,    \* how the request ended
    initial,    \* history: balance each account was created with
    snapBal,    \* history: balance column when the request arrived
    snapRows,   \* history: transactions table when the request arrived
    bw,         \* history: balance UPDATE statements the request executed
    started,    \* history: number of requests started
    clash,      \* history: two requests in flight addressed one transaction
    lastCreate, \* history: the transaction created by the latest write
    scen,       \* history: progress along the scenario of the specification
    acctUser,   \* Account.user_id column, by account primary key
    categories, \* categories table: primary key -> row
    nextCat,    \* next primary key of the categories table
    user,       \* request.user of each request
    snapCat,    \* history: categories table when the request arrived
    analyses,   \* ai_aianalysis table: primary key -> row
    cache,      \* the cache entries ai:analysis:<user id>
    now,        \* the clock, in hours
    aipc,       \* position of each generate_analysis_for_user call
    aiuser,     \* the user_id argument of each call
    airesult,   \* what each call returned or raised
    ticks,      \* history: number of clock advances
    calls,      \* history: number of calls started
    nextAnalysis, \* the key the ai_aianalysis table gives its next row
    ledgerDate, \* Transaction.transaction_date as days before today, by key
    toolArg,    \* the user_id the tool was last invoked with
    toolResult, \* what the tool returned or raised
    deltaCall   \* the latest call of the two _calculate_delta functions

aiVars == <<analyses, cache, now, aipc, aiuser, airesult, ticks, calls,
            nextAnalysis>>
toolVars == <<ledgerDate, toolArg, toolResult>>
tables == <<acctUser, categories, nextCat>>

vars == <<balance, rows, nextId, pc, kind, inst, previous, created, outcome,
          initial, snapBal, snapRows, bw, started, clash, lastCreate, scen,
          acctUser, categories, nextCat, user, snapCat, aiVars, toolVars,
          deltaCall>>

NoInst == [pk |-> 0, account_id |-> "none", category_id |-> 0,
           transaction_type |-> "none", amount |-> 0, description |-> "none"]
NoRows == [t \in {} |-> NoInst]
NoBal == [a \in {} |-> 0]
NoCreate == [pk |-> 0, bal |-> NoBal]
NoCall == [called |-> FALSE, amount |-> 0, transaction_type |-> "none",
           signals |-> 0, forms |-> 0]

\* ---- pure functions of the code ----

\* variant: the sign is not derived from the type
_calculate_delta_unsigned(amount, transaction_type) == amount

\* signals._calculate_delta
_calculate_delta(amount, transaction_type) ==
    IF transaction_type = INCOME THEN amount ELSE amount * (0 - 1)

\* variant: a value that is neither INCOME nor EXPENSE has no effect
Form_calculate_delta_strict(amount, transaction_type) ==
    IF transaction_type = INCOME THEN amount
    ELSE IF transaction_type = EXPENSE THEN amount * (0 - 1)
    ELSE 0

\* TransactionForm._calculate_delta
Form_calculate_delta(amount, transaction_type) ==
    IF transaction_type = INCOME THEN amount ELSE amount * (0 - 1)

\* variant: the assignment drops F('balance') and stores the delta itself
_apply_delta_overwrite(bal, account_id, delta) ==
    [a \in DOMAIN bal |-> IF a = account_id THEN delta ELSE bal[a]]

\* variant: the statement has no WHERE clause
_apply_delta_allrows(bal, account_id, delta) ==
    [a \in DOMAIN bal |-> bal[a] + delta]

\* signals._apply_delta: UPDATE accounts SET balance = balance + delta
\* WHERE id = account_id, one statement on the stored value
_apply_delta(bal, account_id, delta) ==
    [a \in DOMAIN bal |-> IF a = account_id THEN bal[a] + delta ELSE bal[a]]

\* the row an instance is stored as
RowOf(i) == [account_id |-> i.account_id, category_id |-> i.category_id,
             transaction_type |-> i.transaction_type,
             amount |-> i.amount, description |-> i.description]

\* Transaction.objects.get(pk=pk) as an instance
Get(rws, pk) == [pk |-> pk, account_id |-> rws[pk].account_id,
                 category_id |-> rws[pk].category_id,
                 transaction_type |-> rws[pk].transaction_type,
                 amount |-> rws[pk].amount,
                 description |-> rws[pk].description]

\* the signed effect of a stored transaction: +amount for INCOME, -amount
\* for EXPENSE
SignedEffect(r) ==
    IF r.transaction_type = INCOME THEN r.amount
    ELSE IF r.transaction_type = EXPENSE THEN 0 - r.amount
    ELSE 0

RECURSIVE SumOver(_, _, _)
SumOver(rws, a, S) ==
    IF S = {} THEN 0
    ELSE LET t == CHOOSE x \in S : TRUE
         IN (IF rws[t].account_id = a THEN SignedEffect(rws[t]) ELSE 0)
            + SumOver(rws, a, S \ {t})

\* sum of the signed effects of the transactions referencing account a
SignedSum(rws, a) == SumOver(rws, a, DOMAIN rws)

\* variant: the stored delta is taken off whatever account is selected
_get_available_balance_anyaccount(bal, original, account_id) ==
    IF original.pk # 0
    THEN bal[account_id]
         - Form_calculate_delta(original.amount, original.transaction_type)
    ELSE bal[account_id]

\* TransactionForm._get_available_balance
_get_available_balance(bal, original, account_id) ==
    IF original.pk # 0 /\ original.account_id = account_id
    THEN bal[account_id]
         - Form_calculate_delta(original.amount, original.transaction_type)
    ELSE bal[account_id]

\* variant: the insufficient-funds check is applied to new transactions only
clean_createonly(bal, original, account_id, transaction_type, amount) ==
    ~ (transaction_type = EXPENSE
       /\ original.pk = 0
       /\ _get_available_balance(bal, original, account_id) < amount)

\* variant: the insufficient-funds check is missing
clean_nofunds(bal, original, account_id, transaction_type, amount) == TRUE

\* TransactionForm.clean: the insufficient-funds check
clean(bal, original, account_id, transaction_type, amount) ==
    ~ (transaction_type = EXPENSE
       /\ _get_available_balance(bal, original, account_id) < amount)

\* variant: only the account is checked against the submitting user
clean_ownership_account(owners, cats, user_id, account_id, category_id) ==
    /\ account_id \in DOMAIN owners
    /\ owners[account_id] = user_id
    /\ category_id \in DOMAIN cats

\* TransactionForm.__init__ and clean: the account and the category are
\* choices of the submitting user's own querysets
clean_ownership(owners, cats, user_id, account_id, category_id) ==
    /\ account_id \in DOMAIN owners
    /\ owners[account_id] = user_id
    /\ category_id \in DOMAIN cats
    /\ cats[category_id].user_id = user_id

\* variant: the category type is not compared with the transaction type
clean_category_any(cats, category_id, transaction_type) == TRUE

\* TransactionForm.clean: the category type matches the transaction type
clean_category(cats, category_id, transaction_type) ==
    cats[category_id].category_type = transaction_type

\* TransactionForm.is_valid
is_valid(bal, owners, cats, original, user_id, i) ==
    /\ clean_ownership(owners, cats, user_id, i.account_id, i.category_id)
    /\ clean_category(cats, i.category_id, i.transaction_type)
    /\ clean(bal, original, i.account_id, i.transaction_type, i.amount)

\* ---- the analysis tools ----

\* timedelta(days=30) of get_user_transactions
WindowDays == 30
Ages == {0, WindowDays, WindowDays + 1}
ToolInputs == 0 .. (Cardinality(Users) + 1)

NoItems == [t \in {} |-> 0]

\* one item of the returned list; float(txn.amount) of a two-place Decimal
\* denotes the same number of cents, names stand for the keys
Serialize(rws, dates, t) ==
    [date |-> dates[t], amount |-> rws[t].amount,
     type |-> rws[t].transaction_type, category |-> rws[t].category_id,
     description |-> rws[t].description, account |-> rws[t].account_id]

\* variant: the query does not filter on the owner of the account
get_user_transactions_nofilter(rws, owners, dates, user_id) ==
    LET transactions == {t \in DOMAIN rws : dates[t] <= WindowDays}
    IN [t \in transactions |-> Serialize(rws, dates, t)]

\* get_user_transactions: the transactions of the last 30 days on accounts
\* of user_id, serialized; the list is indexed here by the key of the row
\* it came from
get_user_transactions(rws, owners, dates, user_id) ==
    LET transactions ==
            {t \in DOMAIN rws : /\ rws[t].account_id \in DOMAIN owners
                                /\ owners[rws[t].account_id] = user_id
                                /\ dates[t] <= WindowDays}
    IN [t \in transactions |-> Serialize(rws, dates, t)]

\* ---- the analysis service ----

\* CACHE_TTL_SECONDS of analysis_service, and the same in hours
CACHE_TTL_SECONDS == 60 * 60 * 24
CacheTtlHours == CACHE_TTL_SECONDS \div (60 * 60)
\* timedelta(hours=24) of generate_analysis_for_user
CooldownHours == 24
TickHours == {1, CooldownHours - 1, CooldownHours}
NoResult == [source |-> "none", pk |-> 0]

\* _read_cache: the cached key, 0 when there is no live entry or the
\* analysis it names is gone
_read_cache(user_id) ==
    IF /\ user_id \in DOMAIN cache
       /\ now < cache[user_id].expires
       /\ cache[user_id].pk \in DOMAIN analyses
    THEN cache[user_id].pk ELSE 0

\* the cache after _read_cache: cache.delete(key) when the live entry names
\* an analysis that is gone
_read_cache_delete(user_id) ==
    IF /\ user_id \in DOMAIN cache
       /\ now < cache[user_id].expires
       /\ cache[user_id].pk \notin DOMAIN analyses
    THEN [u \in DOMAIN cache \ {user_id} |-> cache[u]]
    ELSE cache

\* _write_cache: cache.set(key, analysis.pk, CACHE_TTL_SECONDS)
_write_cache(user_id, pk) ==
    (user_id :> [pk |-> pk, expires |-> now + CacheTtlHours])
    @@ [u \in DOMAIN cache \ {user_id} |-> cache[u]]

\* AIAnalysis.objects.filter(user=user, created_at__gte=cutoff_time)
\*     .order_by('-created_at').first(): the keys it can return
existing_analysis(user_id) ==
    LET cutoff_time == now - CooldownHours
        recent == {k \in DOMAIN analyses :
                      /\ analyses[k].user_id = user_id
                      /\ analyses[k].created_at >= cutoff_time}
    IN {k \in recent :
           \A j \in recent : analyses[j].created_at <= analyses[k].created_at}

\* ---- initial states ----

\* the accounts of the two users
AccountOwners == [a \in Accounts |-> IF a = Bystander THEN 2 ELSE FormUser]

\* create_default_categories: every user starts with INCOME and EXPENSE
\* categories
DefaultCategories ==
    (1 :> [user_id |-> 1, category_type |-> INCOME])
    @@ (2 :> [user_id |-> 1, category_type |-> EXPENSE])
    @@ (3 :> [user_id |-> 2, category_type |-> INCOME])
    @@ (4 :> [user_id |-> 2, category_type |-> EXPENSE])

NoAnalyses == [k \in {} |-> [user_id |-> 0, created_at |-> 0]]
NoCache == [u \in {} |-> [pk |-> 0, expires |-> 0]]
NoDates == [t \in {} |-> 0]

\* no analysis call is running
AiIdle ==
    /\ analyses = NoAnalyses
    /\ cache = NoCache
    /\ now = 0
    /\ aipc = [p \in Procs |-> "idle"]
    /\ aiuser = [p \in Procs |-> 0]
    /\ airesult = [p \in Procs |-> NoResult]
    /\ ticks = 0
    /\ calls = 0
    /\ nextAnalysis = 1

\* the tool has not been invoked
ToolIdle ==
    /\ ledgerDate = NoDates
    /\ toolArg = 0
    /\ toolResult = [status |-> "none", items |-> NoItems]

\* the accounts and categories the users start with
InitialTables ==
    /\ acctUser = AccountOwners
    /\ categories = DefaultCategories
    /\ nextCat = 5

\* the balances the accounts were created with; the bystander account holds
\* MaxInit
InitialBalances ==
    {f \in [Accounts -> InitBalances] : f[Bystander] = MaxInit}

IdleLocals ==
    /\ pc = [p \in Procs |-> "idle"]
    /\ kind = [p \in Procs |-> "none"]
    /\ inst = [p \in Procs |-> NoInst]
    /\ previous = [p \in Procs |-> NoInst]
    /\ created = [p \in Procs |-> FALSE]
    /\ outcome = [p \in Procs |-> "none"]
    /\ snapBal = [p \in Procs |-> NoBal]
    /\ snapRows = [p \in Procs |-> NoRows]
    /\ bw = [p \in Procs |-> 0]
    /\ started = 0
    /\ clash = FALSE
    /\ lastCreate = NoCreate
    /\ scen = "s0"
    /\ user = [p \in Procs |-> 0]
    /\ snapCat = [p \in Procs |-> DefaultCategories]
    /\ deltaCall = NoCall

Init ==
    /\ initial \in InitialBalances
    /\ balance = initial
    /\ rows = NoRows
    /\ nextId = 1
    /\ IdleLocals
    /\ InitialTables
    /\ AiIdle
    /\ ToolIdle

\* the ledger already holds one transaction, recorded by an earlier create
\* request that has completed
ConcInit ==
    /\ initial \in InitialBalances
    /\ rows = (1 :> [account_id |-> "a1", category_id |-> 1,
                     transaction_type |-> INCOME, amount |-> 1,
                     description |-> "d1"])
    /\ balance = [initial EXCEPT !["a1"] = @ + 1]
    /\ nextId = 2
    /\ IdleLocals
    /\ InitialTables
    /\ AiIdle
    /\ ToolIdle

\* every account was created with MaxInit
FormsInit ==
    /\ initial = [a \in Accounts |-> MaxInit]
    /\ balance = initial
    /\ rows = NoRows
    /\ nextId = 1
    /\ IdleLocals
    /\ InitialTables
    /\ AiIdle
    /\ ToolIdle

\* the ledger holds one transaction and every account was created with
\* MaxInit
DelInit ==
    /\ ConcInit
    /\ initial = [a \in Accounts |-> MaxInit]

ScenarioInit ==
    /\ initial = [a \in Accounts |->
                    IF a = ScenarioAccount THEN ScenarioBalance ELSE 0]
    /\ balance = initial
    /\ rows = NoRows
    /\ nextId = 1
    /\ IdleLocals
    /\ InitialTables
    /\ AiIdle
    /\ ToolIdle

\* ---- requests ----

Free(p) == pc[p] \in {"idle", "done"}
Earlier(p) == IF p = "r2" THEN {"r1"} ELSE {}

\* worker p is the first free worker and another request may arrive
Accepts(p, limit) ==
    /\ Free(p)
    /\ \A q \in Earlier(p) : ~ Free(q)
    /\ started < limit

\* a request arrives and is served by the first free worker
Begin(p, u, k, i, valid, limit) ==
    /\ Accepts(p, limit)
    /\ started' = started + 1
    /\ kind' = [kind EXCEPT ![p] = k]
    /\ inst' = [inst EXCEPT ![p] = i]
    /\ user' = [user EXCEPT ![p] = u]
    /\ snapCat' = [snapCat EXCEPT ![p] = categories]
    /\ snapBal' = [snapBal EXCEPT ![p] = balance]
    /\ snapRows' = [snapRows EXCEPT ![p] = rows]
    /\ bw' = [bw EXCEPT ![p] = 0]
    /\ clash' = (clash \/ (i.pk # 0 /\ \E q \in Procs \ {p} :
                              ~ Free(q) /\ inst[q].pk = i.pk))
    /\ outcome' = [outcome EXCEPT ![p] = IF valid THEN "none" ELSE "invalid"]
    /\ previous' = [previous EXCEPT ![p] = NoInst]
    /\ created' = [created EXCEPT ![p] = FALSE]
    /\ lastCreate' = IF outcome[p] = "invalid"
                        \/ (kind[p] = "create" /\ outcome[p] = "ok")
                     THEN lastCreate ELSE NoCreate
    /\ UNCHANGED <<rows, nextId, initial, aiVars, toolVars,
                   deltaCall>>

\* the scenario: create INCOME 500.00, update it to EXPENSE 200.00, delete it
ScenStep(s, k, i, out) ==
    IF out # "ok" THEN "off"
    ELSE IF s = "s0" /\ k = "create" /\ i.account_id = ScenarioAccount
            /\ i.transaction_type = INCOME /\ i.amount = ScenarioIncome
         THEN "s1"
    ELSE IF s = "s1" /\ k = "update" /\ i.pk = 1
            /\ i.account_id = ScenarioAccount
            /\ i.transaction_type = EXPENSE /\ i.amount = ScenarioExpense
         THEN "s2"
    ELSE IF s = "s2" /\ k = "delete" /\ i.pk = 1
         THEN "s3"
    ELSE "off"

\* the request has run its last statement and is about to respond
Finish(p, out) ==
    /\ outcome' = [outcome EXCEPT ![p] = out]
    /\ scen' = ScenStep(scen, kind[p], inst'[p], out)
    /\ lastCreate' = IF kind[p] = "create" /\ out = "ok"
                     THEN [pk |-> inst'[p].pk, bal |-> snapBal[p]]
                     ELSE lastCreate

\* TransactionCreateView.post: the form is bound and validated
TransactionCreateView(p, u, a, c, ty, amt, d, limit) ==
    LET i == [pk |-> 0, account_id |-> a, category_id |-> c,
              transaction_type |-> ty, amount |-> amt, description |-> d]
        valid == is_valid(balance, acctUser, categories, NoInst, u, i)
    IN /\ Begin(p, u, "create", i, valid, limit)
       /\ UNCHANGED <<balance, tables>>
       /\ pc' = [pc EXCEPT ![p] = IF valid THEN "pre_save" ELSE "done"]
       /\ scen' = IF valid THEN scen ELSE "off"

\* variant: the views resolve the transactions of every user
get_queryset_all(rws, owners, user_id) == DOMAIN rws

\* get_queryset of the transaction views: the transactions on the accounts
\* of request.user
get_queryset(rws, owners, user_id) ==
    {t \in DOMAIN rws : /\ rws[t].account_id \in DOMAIN owners
                        /\ owners[rws[t].account_id] = user_id}

\* TransactionUpdateView.post: get_object, then the form is bound to the
\* loaded instance and validated
TransactionUpdateView(p, u, t, a, c, ty, amt, d, limit) ==
    /\ t \in get_queryset(rows, acctUser, u)
    /\ LET original == Get(rows, t)
           i == [pk |-> t, account_id |-> a, category_id |-> c,
                 transaction_type |-> ty, amount |-> amt, description |-> d]
           valid == is_valid(balance, acctUser, categories, original, u, i)
       IN /\ Begin(p, u, "update", i, valid, limit)
          /\ UNCHANGED <<balance, tables>>
          /\ pc' = [pc EXCEPT ![p] = IF valid THEN "pre_save" ELSE "done"]
          /\ scen' = IF valid THEN scen ELSE "off"

\* TransactionDeleteView.post: get_object
TransactionDeleteView(p, u, t, limit) ==
    /\ t \in get_queryset(rows, acctUser, u)
    /\ Begin(p, u, "delete", Get(rows, t), TRUE, limit)
    /\ UNCHANGED <<balance, tables>>
    /\ pc' = [pc EXCEPT ![p] = "delete"]
    /\ UNCHANGED scen

\* variant: the "nothing changed that affects balance" test is missing
update_balance_on_update_noskip(p) ==
    /\ pc[p] = "pre_save"
    /\ IF inst[p].pk = 0 \/ inst[p].pk \notin DOMAIN rows
       THEN /\ pc' = [pc EXCEPT ![p] = "save_table"]
            /\ UNCHANGED previous
       ELSE /\ pc' = [pc EXCEPT ![p] = "atomic"]
            /\ previous' = [previous EXCEPT ![p] = Get(rows, inst[p].pk)]
    /\ UNCHANGED <<balance, rows, nextId, kind, inst, created, outcome,
                   initial, snapBal, snapRows, bw, started, clash,
                   lastCreate, scen>>
    /\ UNCHANGED <<tables, user, snapCat, aiVars, toolVars,
                   deltaCall>>

\* pre_save handler update_balance_on_update, up to the atomic block
update_balance_on_update(p) ==
    /\ pc[p] = "pre_save"
    /\ IF inst[p].pk = 0 \/ inst[p].pk \notin DOMAIN rows
       THEN /\ pc' = [pc EXCEPT ![p] = "save_table"]
            /\ UNCHANGED previous
       ELSE LET prev == Get(rows, inst[p].pk)
                previous_delta ==
                    _calculate_delta(prev.amount, prev.transaction_type)
                new_delta ==
                    _calculate_delta(inst[p].amount, inst[p].transaction_type)
            IN IF prev.account_id = inst[p].account_id
                  /\ previous_delta = new_delta
               THEN /\ pc' = [pc EXCEPT ![p] = "save_table"]
                    /\ UNCHANGED previous
               ELSE /\ pc' = [pc EXCEPT ![p] = "atomic"]
                    /\ previous' = [previous EXCEPT ![p] = prev]
    /\ UNCHANGED <<balance, rows, nextId, kind, inst, created, outcome,
                   initial, snapBal, snapRows, bw, started, clash,
                   lastCreate, scen>>
    /\ UNCHANGED <<tables, user, snapCat, aiVars, toolVars,
                   deltaCall>>

\* variant: the previous effect is not reverted, only the new one applied
update_balance_on_update_atomic_norevert(p) ==
    /\ pc[p] = "atomic"
    /\ balance' = _apply_delta(balance, inst[p].account_id,
           _calculate_delta(inst[p].amount, inst[p].transaction_type))
    /\ bw' = [bw EXCEPT ![p] = @ + 1]
    /\ pc' = [pc EXCEPT ![p] = "save_table"]
    /\ UNCHANGED <<rows, nextId, kind, inst, previous, created, outcome,
                   initial, snapBal, snapRows, started, clash, lastCreate,
                   scen>>
    /\ UNCHANGED <<tables, user, snapCat, aiVars, toolVars,
                   deltaCall>>

\* variant: the previous effect is reverted on instance.account_id instead
\* of previous.account_id
update_balance_on_update_atomic_sameaccount(p) ==
    /\ pc[p] = "atomic"
    /\ LET previous_delta == _calculate_delta(previous[p].amount,
                                              previous[p].transaction_type)
           new_delta ==
               _calculate_delta(inst[p].amount, inst[p].transaction_type)
           reverted == _apply_delta(balance, inst[p].account_id,
                                    0 - previous_delta)
       IN balance' = _apply_delta(reverted, inst[p].account_id, new_delta)
    /\ bw' = [bw EXCEPT ![p] = @ + 2]
    /\ pc' = [pc EXCEPT ![p] = "save_table"]
    /\ UNCHANGED <<rows, nextId, kind, inst, previous, created, outcome,
                   initial, snapBal, snapRows, started, clash, lastCreate,
                   scen>>
    /\ UNCHANGED <<tables, user, snapCat, aiVars, toolVars,
                   deltaCall>>

\* variant: the block commits after the reversal, the new effect is lost
update_balance_on_update_atomic_revertonly(p) ==
    /\ pc[p] = "atomic"
    /\ balance' = _apply_delta(balance, previous[p].account_id,
           0 - _calculate_delta(previous[p].amount,
                                previous[p].transaction_type))
    /\ bw' = [bw EXCEPT ![p] = @ + 1]
    /\ pc' = [pc EXCEPT ![p] = "save_table"]
    /\ UNCHANGED <<rows, nextId, kind, inst, previous, created, outcome,
                   initial, snapBal, snapRows, started, clash, lastCreate,
                   scen>>
    /\ UNCHANGED <<tables, user, snapCat, aiVars, toolVars,
                   deltaCall>>

\* the atomic block of update_balance_on_update: both adjustments commit
\* together
update_balance_on_update_atomic(p) ==
    /\ pc[p] = "atomic"
    /\ LET previous_delta == _calculate_delta(previous[p].amount,
                                              previous[p].transaction_type)
           new_delta ==
               _calculate_delta(inst[p].amount, inst[p].transaction_type)
           reverted == _apply_delta(balance, previous[p].account_id,
                                    0 - previous_delta)
       IN balance' = _apply_delta(reverted, inst[p].account_id, new_delta)
    /\ bw' = [bw EXCEPT ![p] = @ + 2]
    /\ pc' = [pc EXCEPT ![p] = "save_table"]
    /\ UNCHANGED <<rows, nextId, kind, inst, previous, created, outcome,
                   initial, snapBal, snapRows, started, clash, lastCreate,
                   scen>>
    /\ UNCHANGED <<tables, user, snapCat, aiVars, toolVars,
                   deltaCall>>

\* the foreign keys of the instance reference stored rows
ForeignKeysHold(i) ==
    /\ i.account_id \in DOMAIN acctUser
    /\ i.category_id \in DOMAIN categories

\* Model.save after pre_save: UPDATE the row by primary key; INSERT when the
\* instance has no primary key or the UPDATE matched no row
save_table(p) ==
    /\ pc[p] = "save_table"
    /\ ForeignKeysHold(inst[p])
    /\ IF inst[p].pk # 0 /\ inst[p].pk \in DOMAIN rows
       THEN /\ rows' = [rows EXCEPT ![inst[p].pk] = RowOf(inst[p])]
            /\ created' = [created EXCEPT ![p] = FALSE]
            /\ UNCHANGED <<inst, nextId>>
       ELSE IF inst[p].pk # 0
       THEN /\ rows' = (inst[p].pk :> RowOf(inst[p])) @@ rows
            /\ created' = [created EXCEPT ![p] = TRUE]
            /\ UNCHANGED <<inst, nextId>>
       ELSE /\ nextId <= MaxTx
            /\ rows' = (nextId :> RowOf(inst[p])) @@ rows
            /\ inst' = [inst EXCEPT ![p].pk = nextId]
            /\ nextId' = nextId + 1
            /\ created' = [created EXCEPT ![p] = TRUE]
    /\ pc' = [pc EXCEPT ![p] = "post_save"]
    /\ UNCHANGED <<balance, kind, previous, outcome, initial, snapBal,
                   snapRows, bw, started, clash, lastCreate, scen>>
    /\ UNCHANGED <<tables, user, snapCat, aiVars, toolVars,
                   deltaCall>>

\* variant: the amount is added whatever the transaction type
update_balance_on_create_unsigned(p) ==
    /\ pc[p] = "post_save"
    /\ IF ~ created[p]
       THEN UNCHANGED <<balance, bw>>
       ELSE /\ balance' = _apply_delta(balance, inst[p].account_id,
                                       inst[p].amount)
            /\ bw' = [bw EXCEPT ![p] = @ + 1]
    /\ pc' = [pc EXCEPT ![p] = "done"]
    /\ UNCHANGED inst
    /\ Finish(p, "ok")
    /\ UNCHANGED <<rows, nextId, kind, previous, created, initial, snapBal,
                   snapRows, started, clash>>
    /\ UNCHANGED <<tables, user, snapCat, aiVars, toolVars,
                   deltaCall>>

\* post_save handler update_balance_on_create
update_balance_on_create(p) ==
    /\ pc[p] = "post_save"
    /\ IF ~ created[p]
       THEN UNCHANGED <<balance, bw>>
       ELSE /\ balance' = _apply_delta(balance, inst[p].account_id,
                   _calculate_delta(inst[p].amount, inst[p].transaction_type))
            /\ bw' = [bw EXCEPT ![p] = @ + 1]
    /\ pc' = [pc EXCEPT ![p] = "done"]
    /\ UNCHANGED inst
    /\ Finish(p, "ok")
    /\ UNCHANGED <<rows, nextId, kind, previous, created, initial, snapBal,
                   snapRows, started, clash>>
    /\ UNCHANGED <<tables, user, snapCat, aiVars, toolVars,
                   deltaCall>>

\* variant: the delta is applied again instead of reversed
update_balance_on_delete_noreverse(p) ==
    /\ pc[p] = "delete"
    /\ rows' = [t \in DOMAIN rows \ {inst[p].pk} |-> rows[t]]
    /\ balance' = _apply_delta(balance, inst[p].account_id,
           _calculate_delta(inst[p].amount, inst[p].transaction_type))
    /\ bw' = [bw EXCEPT ![p] = @ + 1]
    /\ pc' = [pc EXCEPT ![p] = "done"]
    /\ UNCHANGED inst
    /\ Finish(p, "ok")
    /\ UNCHANGED <<nextId, kind, previous, created, initial, snapBal,
                   snapRows, started, clash>>
    /\ UNCHANGED <<tables, user, snapCat, aiVars, toolVars,
                   deltaCall>>

\* instance.delete(): the DELETE statement and the post_delete handler
\* update_balance_on_delete, inside the collector's atomic block
update_balance_on_delete(p) ==
    /\ pc[p] = "delete"
    /\ rows' = [t \in DOMAIN rows \ {inst[p].pk} |-> rows[t]]
    /\ balance' = _apply_delta(balance, inst[p].account_id,
           0 - _calculate_delta(inst[p].amount, inst[p].transaction_type))
    /\ bw' = [bw EXCEPT ![p] = @ + 1]
    /\ pc' = [pc EXCEPT ![p] = "done"]
    /\ UNCHANGED inst
    /\ Finish(p, "ok")
    /\ UNCHANGED <<nextId, kind, previous, created, initial, snapBal,
                   snapRows, started, clash>>
    /\ UNCHANGED <<tables, user, snapCat, aiVars, toolVars,
                   deltaCall>>

\* a statement of the request raises a database error: the statement (for
\* the atomic blocks, the whole block) is rolled back, what the request
\* committed before stays, and the exception ends the request
Raise(p) ==
    /\ \/ pc[p] \in {"atomic", "save_table", "delete"}
       \/ pc[p] = "post_save" /\ created[p]
    /\ pc' = [pc EXCEPT ![p] = "done"]
    /\ UNCHANGED inst
    /\ Finish(p, "error")
    /\ UNCHANGED <<balance, rows, nextId, kind, previous, created, initial,
                   snapBal, snapRows, bw, started, clash>>
    /\ UNCHANGED <<tables, user, snapCat, aiVars, toolVars,
                   deltaCall>>

\* the row write of Model.save references an account or category that has
\* been deleted: the database refuses the statement with IntegrityError,
\* which ends the request
IntegrityError(p) ==
    /\ pc[p] = "save_table"
    /\ ~ ForeignKeysHold(inst[p])
    /\ pc' = [pc EXCEPT ![p] = "done"]
    /\ UNCHANGED inst
    /\ Finish(p, "error")
    /\ UNCHANGED <<balance, rows, nextId, kind, previous, created, initial,
                   snapBal, snapRows, bw, started, clash>>
    /\ UNCHANGED <<tables, user, snapCat, aiVars, toolVars,
                   deltaCall>>

\* AccountUpdateView.post with AccountForm: get_object, clean_balance, and
\* form.save(), which writes every field of the form, balance included
AccountUpdateView(p, u, a, posted, limit) ==
    LET valid == ~ (posted < 0)
    IN /\ a \in DOMAIN acctUser
       /\ acctUser[a] = u
       /\ Begin(p, u, "account_edit", NoInst, valid, limit)
       /\ UNCHANGED tables
       /\ balance' = IF valid THEN [balance EXCEPT ![a] = posted]
                      ELSE balance
       /\ pc' = [pc EXCEPT ![p] = "done"]
       /\ scen' = "off"

\* AccountForm.__init__ on edit: initial['balance'] = f'{balance:.2f}', the
\* text the read-only field shows and the browser posts back
format_balance(b) ==
    [negative |-> b < 0,
     units |-> (IF b < 0 THEN 0 - b ELSE b) \div 100,
     cents |-> (IF b < 0 THEN 0 - b ELSE b) % 100]

\* DecimalField.to_python of the posted text, in cents
to_python(text) ==
    (IF text.negative THEN 0 - 1 ELSE 1) * (text.units * 100 + text.cents)

\* AccountUpdateView.get: get_object, and the form rendered with the stored
\* balance; the instance slot holds the account and the balance shown
AccountUpdateView_get(p, u, a, limit) ==
    /\ a \in DOMAIN acctUser
    /\ acctUser[a] = u
    /\ Begin(p, u, "account_edit",
             [NoInst EXCEPT !.account_id = a,
                            !.amount = to_python(format_balance(balance[a]))],
             TRUE, limit)
    /\ UNCHANGED <<balance, tables, scen>>
    /\ pc' = [pc EXCEPT ![p] = "account_form"]

\* AccountUpdateView.post of the form as it was rendered: clean_balance,
\* then form.save(), one UPDATE of every field of the form, balance
\* included, with the posted values
AccountUpdateView_post(p) ==
    /\ pc[p] = "account_form"
    /\ LET posted == inst[p].amount
           a == inst[p].account_id
           valid == ~ (posted < 0)
       IN /\ balance' = IF valid /\ a \in DOMAIN balance
                        THEN [balance EXCEPT ![a] = posted]
                        ELSE balance
          /\ Finish(p, IF valid THEN "ok" ELSE "invalid")
    /\ pc' = [pc EXCEPT ![p] = "done"]
    /\ UNCHANGED inst
    /\ UNCHANGED <<rows, nextId, kind, previous, created, initial, snapBal,
                   snapRows, bw, started, clash>>
    /\ UNCHANGED <<tables, user, snapCat, aiVars, toolVars,
                   deltaCall>>

\* the in-memory Category instance of a category request, held in the
\* request's instance slot: category_id is its key, transaction_type is the
\* category_type the form posted
CategoryInstance(c, ty) ==
    [NoInst EXCEPT !.pk = c, !.category_id = c, !.transaction_type = ty]

\* CategoryCreateView.post: CategoryForm has no cross-field validation
CategoryCreateView(p, u, ty, limit) ==
    /\ Begin(p, u, "category_create", CategoryInstance(0, ty), TRUE, limit)
    /\ UNCHANGED <<balance, tables, scen>>
    /\ pc' = [pc EXCEPT ![p] = "category_save"]

\* CategoryUpdateView.post: get_object on the categories of request.user,
\* then CategoryForm, which lets category_type be edited
CategoryUpdateView(p, u, c, ty, limit) ==
    /\ c \in DOMAIN categories
    /\ categories[c].user_id = u
    /\ Begin(p, u, "category_update", CategoryInstance(c, ty), TRUE, limit)
    /\ UNCHANGED <<balance, tables, scen>>
    /\ pc' = [pc EXCEPT ![p] = "category_save"]

\* form.save() of CategoryForm: Model.save of the Category
category_save(p) ==
    /\ pc[p] = "category_save"
    /\ LET row == [user_id |-> user[p],
                   category_type |-> inst[p].transaction_type]
       IN IF inst[p].pk # 0 /\ inst[p].pk \in DOMAIN categories
          THEN /\ categories' = [categories EXCEPT ![inst[p].pk].category_type
                                     = inst[p].transaction_type]
               /\ UNCHANGED <<inst, nextCat>>
          ELSE IF inst[p].pk # 0
          THEN /\ categories' = (inst[p].pk :> row) @@ categories
               /\ UNCHANGED <<inst, nextCat>>
          ELSE /\ nextCat <= MaxCat
               /\ categories' = (nextCat :> row) @@ categories
               /\ inst' = [inst EXCEPT ![p].pk = nextCat,
                                       ![p].category_id = nextCat]
               /\ nextCat' = nextCat + 1
    /\ pc' = [pc EXCEPT ![p] = "done"]
    /\ Finish(p, "ok")
    /\ UNCHANGED <<balance, rows, nextId, kind, previous, created, initial,
                   snapBal, snapRows, bw, started, clash, acctUser, user,
                   snapCat, aiVars, toolVars,
                   deltaCall>>

\* CategoryDeleteView.post: get_object on the categories of request.user
CategoryDeleteView(p, u, c, limit) ==
    /\ c \in DOMAIN categories
    /\ categories[c].user_id = u
    /\ Begin(p, u, "category_delete", CategoryInstance(c, "none"), TRUE, limit)
    /\ UNCHANGED <<balance, tables, scen>>
    /\ pc' = [pc EXCEPT ![p] = "category_delete"]

\* variant: the category is deleted whether or not transactions reference it
category_delete_unprotected(p) ==
    /\ pc[p] = "category_delete"
    /\ categories' = [c \in DOMAIN categories \ {inst[p].category_id}
                        |-> categories[c]]
    /\ Finish(p, "ok")
    /\ pc' = [pc EXCEPT ![p] = "done"]
    /\ UNCHANGED <<balance, rows, nextId, kind, inst, previous, created,
                   initial, snapBal, snapRows, bw, started, clash, acctUser,
                   nextCat, user, snapCat, aiVars, toolVars,
                   deltaCall>>

\* self.object.delete() of CategoryDeleteView.post: the collector raises
\* ProtectedError when a transaction references the category (on_delete =
\* PROTECT) and the view answers with an error message; otherwise the row
\* is deleted
category_delete(p) ==
    /\ pc[p] = "category_delete"
    /\ IF \E t \in DOMAIN rows : rows[t].category_id = inst[p].category_id
       THEN /\ UNCHANGED categories
            /\ Finish(p, "protected")
       ELSE /\ categories' = [c \in DOMAIN categories \ {inst[p].category_id}
                                |-> categories[c]]
            /\ Finish(p, "ok")
    /\ pc' = [pc EXCEPT ![p] = "done"]
    /\ UNCHANGED <<balance, rows, nextId, kind, inst, previous, created,
                   initial, snapBal, snapRows, bw, started, clash, acctUser,
                   nextCat, user, snapCat, aiVars, toolVars,
                   deltaCall>>

\* AccountDeleteView.post: get_object on the accounts of request.user
AccountDeleteView(p, u, a, limit) ==
    /\ a \in DOMAIN acctUser
    /\ acctUser[a] = u
    /\ Begin(p, u, "account_delete", [NoInst EXCEPT !.account_id = a], TRUE,
             limit)
    /\ UNCHANGED <<balance, tables, scen>>
    /\ pc' = [pc EXCEPT ![p] = "account_delete"]

\* variant: the account is deleted whether or not transactions reference it
account_delete_unprotected(p) ==
    /\ pc[p] = "account_delete"
    /\ balance' = [a \in DOMAIN balance \ {inst[p].account_id} |-> balance[a]]
    /\ acctUser' = [a \in DOMAIN acctUser \ {inst[p].account_id}
                      |-> acctUser[a]]
    /\ Finish(p, "ok")
    /\ pc' = [pc EXCEPT ![p] = "done"]
    /\ UNCHANGED <<rows, nextId, kind, inst, previous, created, initial,
                   snapBal, snapRows, bw, started, clash, categories, nextCat,
                   user, snapCat, aiVars, toolVars,
                   deltaCall>>

\* self.object.delete() of AccountDeleteView.post: the collector raises
\* ProtectedError when a transaction references the account (on_delete =
\* PROTECT) and the view answers with an error message; otherwise the row
\* is deleted
account_delete(p) ==
    /\ pc[p] = "account_delete"
    /\ IF \E t \in DOMAIN rows : rows[t].account_id = inst[p].account_id
       THEN /\ UNCHANGED <<balance, acctUser>>
            /\ Finish(p, "protected")
       ELSE /\ balance' = [a \in DOMAIN balance \ {inst[p].account_id}
                             |-> balance[a]]
            /\ acctUser' = [a \in DOMAIN acctUser \ {inst[p].account_id}
                              |-> acctUser[a]]
            /\ Finish(p, "ok")
    /\ pc' = [pc EXCEPT ![p] = "done"]
    /\ UNCHANGED <<rows, nextId, kind, inst, previous, created, initial,
                   snapBal, snapRows, bw, started, clash, categories, nextCat,
                   user, snapCat, aiVars, toolVars,
                   deltaCall>>

\* ---- specifications ----

\* the categories of a type a user owns
CategoriesOf(user_id, ty) ==
    {c \in DOMAIN categories : /\ categories[c].user_id = user_id
                               /\ categories[c].category_type = ty}

\* requests of FormUser on their own accounts, with a category of the
\* submitted type
Start(p, A, D, limit) ==
    \/ /\ Accepts(p, limit)
       /\ \E a \in FormAccounts, ty \in Types, amt \in A, d \in D :
             \E c \in CategoriesOf(FormUser, ty) :
                 TransactionCreateView(p, FormUser, a, c, ty, amt, d, limit)
    \/ /\ Accepts(p, limit)
       /\ \E t \in TxIds, a \in FormAccounts, ty \in Types :
             \E amt \in A, d \in D, c \in CategoriesOf(FormUser, ty) :
                 TransactionUpdateView(p, FormUser, t, a, c, ty, amt, d, limit)
    \/ /\ Accepts(p, limit)
       /\ \E t \in TxIds : TransactionDeleteView(p, FormUser, t, limit)

Step(p) ==
    \/ update_balance_on_update(p)
    \/ update_balance_on_update_atomic(p)
    \/ save_table(p)
    \/ update_balance_on_create(p)
    \/ update_balance_on_delete(p)

\* requests of several workers interleave
Next == \E p \in Procs :
            Start(p, Amounts, ConcDescriptions, MaxConc) \/ Step(p)
Spec == ConcInit /\ [][Next]_vars

\* requests run one at a time
SeqNext == \E p \in SeqProcs : Start(p, Amounts, Descriptions, MaxReq) \/ Step(p)
SpecSeq == Init /\ [][SeqNext]_vars

\* the scenario's account and amounts, requests one at a time
ScenarioNext ==
    \E p \in SeqProcs : Start(p, ScenarioAmounts, Descriptions, MaxReq) \/ Step(p)
SpecScenario == ScenarioInit /\ [][ScenarioNext]_vars

\* requests one at a time, any statement may raise
FailNext == \E p \in SeqProcs :
                Start(p, Amounts, Descriptions, MaxReq) \/ Step(p) \/ Raise(p)
SpecFail == Init /\ [][FailNext]_vars

\* transaction requests and account edits, one at a time
AcctNext == \E p \in SeqProcs :
                \/ Start(p, Amounts, Descriptions, MaxReq)
                \/ Step(p)
                \/ \E a \in FormAccounts, posted \in PostedBalances :
                      AccountUpdateView(p, FormUser, a, posted, MaxReq)
SpecAcct == Init /\ [][AcctNext]_vars

\* requests of every user through the transaction, category and account
\* forms, selecting any account and any category key
StartForms(p, limit) ==
    \E u \in Users :
        \/ \E a \in OwnedAccounts, c \in CatIds, ty \in Types :
              \E amt \in FormAmounts, d \in ConcDescriptions :
                  TransactionCreateView(p, u, a, c, ty, amt, d, limit)
        \/ \E t \in TxIds, a \in OwnedAccounts, c \in CatIds, ty \in Types :
              \E amt \in FormAmounts, d \in ConcDescriptions :
                  TransactionUpdateView(p, u, t, a, c, ty, amt, d, limit)
        \/ \E t \in TxIds : TransactionDeleteView(p, u, t, limit)
        \/ \E ty \in Types : CategoryCreateView(p, u, ty, limit)
        \/ \E c \in CatIds, ty \in Types : CategoryUpdateView(p, u, c, ty, limit)
        \/ \E c \in CatIds : CategoryDeleteView(p, u, c, limit)
        \/ \E a \in OwnedAccounts : AccountDeleteView(p, u, a, limit)

StepForms(p) ==
    \/ category_save(p)
    \/ category_delete(p)
    \/ account_delete(p)

\* transaction, category and account requests of both users, one at a time
FormsNext == \E p \in SeqProcs : StartForms(p, MaxForm) \/ Step(p) \/ StepForms(p)
SpecForms == FormsInit /\ [][FormsNext]_vars

\* edits of stored transactions by interleaved requests, any statement may
\* raise
StartUpdate(p, A, limit) ==
    /\ Accepts(p, limit)
    /\ \E t \in TxIds, a \in FormAccounts, ty \in Types, amt \in A :
          \E d \in ConcDescriptions, c \in CategoriesOf(FormUser, ty) :
              TransactionUpdateView(p, FormUser, t, a, c, ty, amt, d, limit)

StepUpdate(p) ==
    \/ update_balance_on_update(p)
    \/ update_balance_on_update_atomic(p)
    \/ save_table(p)
    \/ update_balance_on_create(p)

AtomicNext == \E p \in Procs :
                  StartUpdate(p, Amounts, MaxEdit) \/ StepUpdate(p) \/ Raise(p)
SpecAtomic == ConcInit /\ [][AtomicNext]_vars

\* edits and deletions of stored transactions and deletions of accounts by
\* interleaved requests
StartDel(p, limit) ==
    \/ StartUpdate(p, FormAmounts, limit)
    \/ \E t \in TxIds : TransactionDeleteView(p, FormUser, t, limit)
    \/ \E a \in FormAccounts : AccountDeleteView(p, FormUser, a, limit)

DelNext == \E p \in Procs :
               \/ StartDel(p, MaxDel)
               \/ Step(p)
               \/ account_delete(p)
               \/ IntegrityError(p)
SpecDel == DelInit /\ [][DelNext]_vars

\* an account edit (form loaded, later submitted unchanged) and transaction
\* requests, interleaved
EditNext == \E p \in Procs :
                \/ /\ Accepts(p, MaxConc)
                   /\ \E a \in FormAccounts :
                         AccountUpdateView_get(p, FormUser, a, MaxConc)
                \/ AccountUpdateView_post(p)
                \/ Start(p, FormAmounts, ConcDescriptions, MaxConc)
                \/ Step(p)
SpecEdit == ConcInit /\ [][EditNext]_vars

\* submissions of the create form by interleaved requests
StartCreate(p, limit) ==
    /\ Accepts(p, limit)
    /\ \E a \in FormAccounts, ty \in Types, amt \in Amounts :
          \E d \in ConcDescriptions, c \in CategoriesOf(FormUser, ty) :
              TransactionCreateView(p, FormUser, a, c, ty, amt, d, limit)

StepCreate(p) ==
    \/ update_balance_on_update(p)
    \/ save_table(p)
    \/ update_balance_on_create(p)

PairNext == \E p \in Procs : StartCreate(p, MaxConc) \/ StepCreate(p)
SpecPair == Init /\ [][PairNext]_vars

\* the rows a ledger of n transactions can hold: each on an account, with
\* the default category of its type of the account's owner
LedgerRows ==
    {r \in [account_id : Accounts, category_id : DOMAIN DefaultCategories,
            transaction_type : Types, amount : FormAmounts,
            description : ConcDescriptions] :
        /\ DefaultCategories[r.category_id].user_id
               = AccountOwners[r.account_id]
        /\ DefaultCategories[r.category_id].category_type
               = r.transaction_type}

\* a database as the forms leave it: up to MaxTx transactions, every
\* balance the initial MaxInit plus the effects of the account's
\* transactions and not negative
ToolInit ==
    /\ \E n \in 0 .. MaxTx : rows \in [1 .. n -> LedgerRows]
    /\ nextId = Cardinality(DOMAIN rows) + 1
    /\ initial = [a \in Accounts |-> MaxInit]
    /\ balance = [a \in Accounts |-> initial[a] + SignedSum(rows, a)]
    /\ \A a \in Accounts : balance[a] >= 0
    /\ IdleLocals
    /\ InitialTables
    /\ AiIdle
    /\ ledgerDate \in [DOMAIN rows -> Ages]
    /\ toolArg = 0
    /\ toolResult = [status |-> "none", items |-> NoItems]

\* get_user_transactions.invoke({'user_id': user_id}): the body returns the
\* list, and returns [] from its `except Exception` branch
invoke(user_id) ==
    /\ toolArg' = user_id
    /\ toolResult' =
           [status |-> "returned",
            items |-> get_user_transactions(rows, acctUser, ledgerDate,
                                            user_id)]
    /\ UNCHANGED <<balance, rows, nextId, pc, kind, inst, previous, created,
                   outcome, initial, snapBal, snapRows, bw, started, clash,
                   lastCreate, scen, tables, user, snapCat, aiVars,
                   ledgerDate, deltaCall>>

ToolNext == \E user_id \in ToolInputs : invoke(user_id)
SpecTools == ToolInit /\ [][ToolNext]_vars

\* a call of signals._calculate_delta and of TransactionForm._calculate_delta
\* with the same arguments
calculate_delta(amount, transaction_type) ==
    /\ deltaCall' = [called |-> TRUE, amount |-> amount,
                     transaction_type |-> transaction_type,
                     signals |-> _calculate_delta(amount, transaction_type),
                     forms |-> Form_calculate_delta(amount, transaction_type)]
    /\ UNCHANGED <<balance, rows, nextId, pc, kind, inst, previous, created,
                   outcome, initial, snapBal, snapRows, bw, started, clash,
                   lastCreate, scen, tables, user, snapCat, aiVars, toolVars>>

DeltaNext ==
    \E amount \in DeltaAmounts, transaction_type \in Types \cup OtherTypes :
        calculate_delta(amount, transaction_type)
SpecDelta == FormsInit /\ [][DeltaNext]_vars

AiFree(p) == aipc[p] \in {"idle", "done"}

\* generate_analysis_for_user, up to the call of the agent: the user is
\* looked up, then the cache, then the analyses of the last 24 hours
generate_analysis_for_user(p, user_id) ==
    /\ AiFree(p)
    /\ \A q \in Earlier(p) : ~ AiFree(q)
    /\ calls < MaxCalls
    /\ calls' = calls + 1
    /\ aiuser' = [aiuser EXCEPT ![p] = user_id]
    /\ IF user_id \notin Users
       THEN /\ airesult' = [airesult EXCEPT ![p] =
                               [source |-> "ValueError", pk |-> 0]]
            /\ aipc' = [aipc EXCEPT ![p] = "done"]
            /\ UNCHANGED cache
       ELSE IF _read_cache(user_id) # 0
       THEN /\ airesult' = [airesult EXCEPT ![p] =
                               [source |-> "cache",
                                pk |-> _read_cache(user_id)]]
            /\ aipc' = [aipc EXCEPT ![p] = "done"]
            /\ UNCHANGED cache
       ELSE IF existing_analysis(user_id) # {}
       THEN /\ \E k \in existing_analysis(user_id) :
                  /\ cache' = _write_cache(user_id, k)
                  /\ airesult' = [airesult EXCEPT ![p] =
                                     [source |-> "recent", pk |-> k]]
            /\ aipc' = [aipc EXCEPT ![p] = "done"]
       ELSE /\ airesult' = [airesult EXCEPT ![p] = NoResult]
            /\ aipc' = [aipc EXCEPT ![p] = "agent"]
            /\ cache' = _read_cache_delete(user_id)
    /\ UNCHANGED <<analyses, now, ticks, nextAnalysis>>
    /\ UNCHANGED <<balance, rows, nextId, pc, kind, inst, previous, created,
                   outcome, initial, snapBal, snapRows, bw, started, clash,
                   lastCreate, scen, tables, user, snapCat, toolVars,
                   deltaCall>>

\* run_analysis raises or returns an empty text, or analysis.save() is
\* refused by the database (SQLite answers a second writer with "database
\* is locked"): the call ends with the exception and the transaction is
\* rolled back
run_analysis_raises(p) ==
    /\ aipc[p] = "agent"
    /\ aipc' = [aipc EXCEPT ![p] = "done"]
    /\ airesult' = [airesult EXCEPT ![p] = [source |-> "error", pk |-> 0]]
    /\ UNCHANGED <<analyses, cache, now, aiuser, ticks, calls, nextAnalysis>>
    /\ UNCHANGED <<balance, rows, nextId, pc, kind, inst, previous, created,
                   outcome, initial, snapBal, snapRows, bw, started, clash,
                   lastCreate, scen, tables, user, snapCat, toolVars,
                   deltaCall>>

\* run_analysis has returned: analysis.save() with created_at = now,
\* _write_cache(analysis), and the commit of the atomic block.  The table
\* has no constraint on (user, created_at) and the query before it takes
\* no lock, so a database with READ COMMITTED isolation accepts the row
analysis_save(p) ==
    /\ aipc[p] = "agent"
    /\ LET pk == nextAnalysis
       IN /\ nextAnalysis' = nextAnalysis + 1
          /\ analyses' = (pk :> [user_id |-> aiuser[p], created_at |-> now])
                         @@ analyses
          /\ cache' = _write_cache(aiuser[p], pk)
          /\ airesult' = [airesult EXCEPT ![p] =
                             [source |-> "agent", pk |-> pk]]
    /\ aipc' = [aipc EXCEPT ![p] = "done"]
    /\ UNCHANGED <<now, aiuser, ticks, calls>>
    /\ UNCHANGED <<balance, rows, nextId, pc, kind, inst, previous, created,
                   outcome, initial, snapBal, snapRows, bw, started, clash,
                   lastCreate, scen, tables, user, snapCat, toolVars,
                   deltaCall>>

\* time passes
Tick(h) ==
    /\ ticks < MaxTicks
    /\ ticks' = ticks + 1
    /\ now' = now + h
    /\ UNCHANGED <<analyses, cache, aipc, aiuser, airesult, calls,
                   nextAnalysis>>
    /\ UNCHANGED <<balance, rows, nextId, pc, kind, inst, previous, created,
                   outcome, initial, snapBal, snapRows, bw, started, clash,
                   lastCreate, scen, tables, user, snapCat, toolVars,
                   deltaCall>>

\* calls of generate_analysis_for_user from the command and the views,
\* interleaved
AiNext ==
    \/ \E p \in Procs :
          \/ \E user_id \in ToolInputs : generate_analysis_for_user(p, user_id)
          \/ run_analysis_raises(p)
          \/ analysis_save(p)
    \/ \E h \in TickHours : Tick(h)
SpecAI == FormsInit /\ [][AiNext]_vars

\* the admin site deletes an analysis
AIAnalysisAdmin_delete(k) ==
    /\ k \in DOMAIN analyses
    /\ analyses' = [j \in DOMAIN analyses \ {k} |-> analyses[j]]
    /\ UNCHANGED <<cache, now, aipc, aiuser, airesult, ticks, calls,
                   nextAnalysis>>
    /\ UNCHANGED <<balance, rows, nextId, pc, kind, inst, previous, created,
                   outcome, initial, snapBal, snapRows, bw, started, clash,
                   lastCreate, scen, tables, user, snapCat, toolVars,
                   deltaCall>>

\* calls of generate_analysis_for_user while the admin site is in use
CacheNext ==
    \/ AiNext
    \/ \E k \in 1 .. MaxCalls : AIAnalysisAdmin_delete(k)
SpecCache == FormsInit /\ [][CacheNext]_vars

Quiescent == \A p \in Procs : Free(p)

\* ---- properties ----

\* the request of worker p has completed a write
Completed(p) == pc[p] = "done" /\ outcome[p] = "ok"

\* the transaction an update or delete request found stored when it arrived
Old(p) == snapRows[p][inst[p].pk]
IsUpdate(p) == Completed(p) /\ kind[p] = "update"
                 /\ inst[p].pk \in DOMAIN snapRows[p]

\* C1, as stated: after each create, update or delete executed one at a
\* time, the balance of the account it was executed on equals the sum of
\* the signed effects of the transactions referencing that account.
C1_BalanceIsSignedSum ==
    \A p \in Procs : Completed(p) =>
        balance[inst[p].account_id] = SignedSum(rows, inst[p].account_id)

\* C1, amended: after each create, update or delete executed one at a time,
\* the balance of every account equals the balance the account was created
\* with plus the sum of the signed effects of the transactions referencing
\* it.
C1_BalanceIsInitialPlusSignedSum ==
    \A p \in Procs : Completed(p) =>
        \A a \in Accounts : balance[a] = initial[a] + SignedSum(rows, a)

C1_Witness ==
    \E p \in Procs :
        /\ IsUpdate(p) /\ bw[p] > 0
        /\ initial[inst[p].account_id] > 0
        /\ Cardinality(DOMAIN rows) = 2

\* C2: at every point where no write is in flight, under any interleaving of
\* requests, the balance of an account equals the sum of the signed amounts
\* of its transactions (stated for the accounts created with balance 0,
\* where the sum alone is the expected balance).
C2_QuiescentBalanceIsSignedSum ==
    Quiescent =>
        \A a \in Accounts :
            initial[a] = 0 => balance[a] = SignedSum(rows, a)

\* C3: when the requests in flight at the same time write different
\* transactions, no balance adjustment is lost: once they have completed,
\* every account's balance is its initial balance plus the signed effects
\* of all its transactions.
C3_NoLostUpdate ==
    (Quiescent /\ ~ clash) =>
        \A a \in Accounts : balance[a] = initial[a] + SignedSum(rows, a)

\* two completed requests that started from the same balance of the same
\* account and wrote different transactions
C3_Witness ==
    /\ ~ clash
    /\ Completed("r1") /\ Completed("r2")
    /\ inst["r1"].pk # inst["r2"].pk
    /\ inst["r1"].account_id = "a1" /\ inst["r2"].account_id = "a1"
    /\ kind["r1"] = "update" /\ kind["r2"] = "create"
    /\ bw["r1"] = 2 /\ bw["r2"] = 1
    /\ snapBal["r1"] = snapBal["r2"]
    /\ balance["a1"] = snapBal["r1"]["a1"]
                       + (SignedEffect(rows[inst["r1"].pk]) - 1)
                       + SignedEffect(rows[inst["r2"].pk])

\* C4: when a step of a transaction write raises, the transaction table and
\* every balance are exactly as they were before the write.
C4_RaiseRollsBack ==
    \A p \in Procs :
        (pc[p] = "done" /\ outcome[p] = "error") =>
            (balance = snapBal[p] /\ rows = snapRows[p])

\* C5: no reader observes the transaction table and the balances out of
\* step: with one writer, in every committed state every account's balance
\* is its initial balance plus the signed effects of its transactions.
C5_NoIntermediateStateVisible ==
    \A a \in Accounts : balance[a] = initial[a] + SignedSum(rows, a)

\* C6: a submission of the account edit form leaves the stored balance as
\* it was, whatever balance the request carries.
C6_EditKeepsBalance ==
    \A p \in Procs :
        (pc[p] = "done" /\ kind[p] = "account_edit") => balance = snapBal[p]

\* C7: from balance 1000.00, creating an INCOME of 500.00 gives 1500.00,
\* updating it to an EXPENSE of 200.00 gives 800.00, deleting it gives
\* 1000.00; and an update that keeps the account changes its balance by
\* (new delta - old delta).
C7_Scenario ==
    /\ (Quiescent /\ scen = "s1") => balance[ScenarioAccount] = Cents(1500)
    /\ (Quiescent /\ scen = "s2") => balance[ScenarioAccount] = Cents(800)
    /\ (Quiescent /\ scen = "s3") => balance[ScenarioAccount] = Cents(1000)
    /\ \A p \in Procs :
          (IsUpdate(p) /\ Old(p).account_id = inst[p].account_id) =>
              balance[inst[p].account_id] =
                  snapBal[p][inst[p].account_id]
                  + (SignedEffect(inst[p]) - SignedEffect(Old(p)))

C7_Witness ==
    Quiescent /\ scen = "s3" /\ balance[ScenarioAccount] = ScenarioBalance

\* C8: an update that leaves account, amount and type as stored executes no
\* balance write and leaves every balance unchanged.
C8_NoEffectUpdate ==
    \A p \in Procs :
        (/\ IsUpdate(p)
         /\ Old(p).account_id = inst[p].account_id
         /\ Old(p).amount = inst[p].amount
         /\ Old(p).transaction_type = inst[p].transaction_type) =>
            (bw[p] = 0 /\ balance = snapBal[p])

\* a completed update that changed the description only
C8_Witness ==
    \E p \in Procs :
        /\ IsUpdate(p)
        /\ Old(p).account_id = inst[p].account_id
        /\ Old(p).amount = inst[p].amount
        /\ Old(p).transaction_type = inst[p].transaction_type
        /\ Old(p).description # inst[p].description
        /\ rows[inst[p].pk].description = inst[p].description

\* C9: deleting a transaction right after creating it, with no write in
\* between, restores every balance to its value before the creation.
C9_CreateThenDelete ==
    \A p \in Procs :
        (Completed(p) /\ kind[p] = "delete" /\ lastCreate.pk = inst[p].pk) =>
            balance = lastCreate.bal

C9_Witness ==
    \E p \in Procs :
        /\ Completed(p) /\ kind[p] = "delete" /\ lastCreate.pk = inst[p].pk
        /\ inst[p].transaction_type = EXPENSE
        /\ inst[p].pk \notin DOMAIN rows

\* C10: an update that moves a transaction to another account subtracts the
\* old delta from the old account, adds the new delta to the new account,
\* changes the sum of the two balances by (new delta - old delta), and
\* changes no third account.
C10_AccountMove ==
    \A p \in Procs :
        (IsUpdate(p) /\ Old(p).account_id # inst[p].account_id) =>
            LET old == Old(p).account_id
                new == inst[p].account_id
            IN /\ balance[old] = snapBal[p][old] - SignedEffect(Old(p))
               /\ balance[new] = snapBal[p][new] + SignedEffect(inst[p])
               /\ balance[old] + balance[new] =
                      snapBal[p][old] + snapBal[p][new]
                      + (SignedEffect(inst[p]) - SignedEffect(Old(p)))
               /\ \A a \in Accounts \ {old, new} :
                      balance[a] = snapBal[p][a]

C10_Witness ==
    \E p \in Procs :
        /\ IsUpdate(p) /\ Old(p).account_id # inst[p].account_id
        /\ Old(p).amount # inst[p].amount
        /\ rows[inst[p].pk].account_id = inst[p].account_id

\* the write request of worker p, create or update
IsWrite(p) == kind[p] \in {"create", "update"}

\* the balance of the selected account when the request arrived, without
\* the effect of the transaction being edited if it is on that account
Available(p) ==
    LET a == inst[p].account_id
    IN snapBal[p][a]
       - (IF kind[p] = "update" /\ Old(p).account_id = a
          THEN SignedEffect(Old(p)) ELSE 0)

\* C11: an EXPENSE submitted through the form, create or update, whose
\* amount is greater than the available balance of the selected account is
\* rejected as invalid and never saved: the transaction table and every
\* balance stay as they were.
C11_InsufficientFundsRejected ==
    \A p \in Procs :
        (/\ IsWrite(p)
         /\ inst[p].transaction_type = EXPENSE
         /\ inst[p].amount > Available(p)) =>
            (/\ pc[p] = "done" /\ outcome[p] = "invalid"
             /\ rows = snapRows[p] /\ balance = snapBal[p])

\* a rejected edit to an EXPENSE that the balance would cover only with the
\* edited INCOME still counted
C11_Witness ==
    \E p \in Procs :
        /\ kind[p] = "update" /\ outcome[p] = "invalid"
        /\ inst[p].transaction_type = EXPENSE
        /\ inst[p].amount > Available(p)
        /\ inst[p].amount <= snapBal[p][inst[p].account_id]
        /\ Old(p).transaction_type = INCOME

\* the submitted category exists and its type differs from the submitted
\* transaction type
TypeMismatch(p) ==
    /\ inst[p].category_id \in DOMAIN snapCat[p]
    /\ snapCat[p][inst[p].category_id].category_type
           # inst[p].transaction_type

\* the submitted account belongs to another user
ForeignAccount(p) ==
    /\ inst[p].account_id \in DOMAIN AccountOwners
    /\ AccountOwners[inst[p].account_id] # user[p]

\* the submitted category belongs to another user
ForeignCategory(p) ==
    /\ inst[p].category_id \in DOMAIN snapCat[p]
    /\ snapCat[p][inst[p].category_id].user_id # user[p]

\* C12: a transaction form submission whose category type differs from its
\* transaction type, or whose account or category belongs to another user,
\* is rejected as invalid: no transaction is created or changed and every
\* balance is as it was when the request arrived.
C12_MismatchOrForeignRejected ==
    \A p \in Procs :
        (IsWrite(p) /\ (TypeMismatch(p) \/ ForeignAccount(p)
                          \/ ForeignCategory(p))) =>
            (/\ pc[p] = "done" /\ outcome[p] = "invalid"
             /\ rows = snapRows[p] /\ balance = snapBal[p])

\* a rejected edit whose only fault is the category type, and a stored
\* transaction it left alone
C12_Witness ==
    \E p \in Procs :
        /\ kind[p] = "update" /\ outcome[p] = "invalid"
        /\ TypeMismatch(p) /\ ~ ForeignAccount(p) /\ ~ ForeignCategory(p)
        /\ inst[p].transaction_type = INCOME
        /\ rows[inst[p].pk].category_id # inst[p].category_id

\* C13: every stored transaction's type equals the type of the category it
\* references, in every state reached through the transaction and category
\* forms.
C13_TypeEqualsCategoryType ==
    \A t \in DOMAIN rows :
        /\ rows[t].category_id \in DOMAIN categories
        /\ categories[rows[t].category_id].category_type
               = rows[t].transaction_type

\* the account or category a delete request addresses was referenced by a
\* transaction when the request arrived
Referenced(p) ==
    \E t \in DOMAIN snapRows[p] :
        \/ kind[p] = "account_delete"
           /\ snapRows[p][t].account_id = inst[p].account_id
        \/ kind[p] = "category_delete"
           /\ snapRows[p][t].category_id = inst[p].category_id

IsEntityDelete(p) ==
    pc[p] = "done" /\ kind[p] \in {"account_delete", "category_delete"}

C15_SameOwner ==
    /\ \A t \in DOMAIN rows :
          /\ rows[t].account_id \in DOMAIN acctUser
          /\ rows[t].category_id \in DOMAIN categories
          /\ acctUser[rows[t].account_id]
                 = categories[rows[t].category_id].user_id
    /\ \A p \in Procs : (Completed(p) /\ IsWrite(p)) =>
          /\ acctUser[inst[p].account_id] = user[p]
          /\ categories[inst[p].category_id].user_id = user[p]

\* each of the two users holds a transaction on an account of their own
C15_Witness ==
    /\ Quiescent
    /\ \E t1, t2 \in DOMAIN rows :
          /\ acctUser[rows[t1].account_id] = 1
          /\ acctUser[rows[t2].account_id] = 2
    /\ \E p \in Procs : Completed(p) /\ IsWrite(p)

\* what the old effect put on account a, and what the new effect puts on it
OldOn(p, a) ==
    IF previous[p].account_id = a THEN SignedEffect(previous[p]) ELSE 0
NewOn(p, a) ==
    IF inst[p].account_id = a THEN SignedEffect(inst[p]) ELSE 0

\* C16: the step that leaves the atomic block of the update path either
\* commits the reversal of the old effect together with the new effect, as
\* two balance writes, or commits neither and ends the request with the
\* error; and in every committed state, which is what a concurrent reader
\* can observe, an edit has executed none or both of its balance writes.
C16_ReversalAndApplyAtomic ==
    [][\A p \in Procs :
          /\ (pc[p] = "atomic" /\ pc'[p] # "atomic") =>
                 \/ /\ \A a \in Accounts :
                           balance'[a] =
                               (balance[a] - OldOn(p, a)) + NewOn(p, a)
                    /\ bw'[p] = bw[p] + 2
                    /\ pc'[p] = "save_table"
                 \/ /\ balance' = balance
                    /\ bw'[p] = bw[p]
                    /\ outcome'[p] = "error"
          /\ kind'[p] = "update" => bw'[p] \in {0, 2}]_vars

\* an edit that moved a transaction to another account has committed both
\* adjustments while another request is in flight
C16_Witness ==
    \E p \in Procs :
        /\ kind[p] = "update" /\ pc[p] = "save_table" /\ bw[p] = 2
        /\ previous[p].account_id # inst[p].account_id
        /\ balance[previous[p].account_id]
               = snapBal[p][previous[p].account_id] - SignedEffect(previous[p])
        /\ \E q \in Procs \ {p} : ~ Free(q)

\* the accounts the next balance adjustment of request p addresses
Targets(p) ==
    IF pc[p] = "atomic" THEN {previous[p].account_id, inst[p].account_id}
    ELSE {inst[p].account_id}

\* what the next balance adjustment of request p puts on account a
Adjustment(p, a) ==
    IF pc[p] = "atomic" THEN NewOn(p, a) - OldOn(p, a)
    ELSE IF pc[p] = "delete" THEN 0 - NewOn(p, a)
    ELSE NewOn(p, a)

\* C17: when a balance adjustment addresses an account that no longer
\* exists, the adjustment of that account matches no row and the request
\* goes on without an error: no account appears, and every existing account
\* changes by exactly what the request addresses to it, the others by
\* nothing.
C17_MissingAccountMatchesNoRow ==
    [][\A p \in Procs :
          (/\ pc[p] \in {"atomic", "post_save", "delete"}
           /\ bw'[p] # bw[p]
           /\ \E a \in Targets(p) : a \notin DOMAIN balance) =>
              /\ DOMAIN balance' = DOMAIN balance
              /\ outcome'[p] # "error"
              /\ \A a \in DOMAIN balance :
                    balance'[a] = balance[a] + Adjustment(p, a)]_vars

\* a delete request has completed after its account was deleted, and the
\* balances of the remaining accounts are what they were created with
C17_Witness ==
    \E p \in Procs :
        /\ Completed(p) /\ kind[p] = "delete" /\ bw[p] = 1
        /\ inst[p].account_id \notin DOMAIN balance
        /\ inst[p].account_id \in DOMAIN snapBal[p]
        /\ \A a \in DOMAIN balance : balance[a] = initial[a]

\* C18: get_user_transactions returns only transactions on accounts owned
\* by the user it was called for, and an empty list for a user who owns no
\* transaction, whatever the other users have.
C18_ToolIsolatesUsers ==
    toolResult.status = "returned" =>
        /\ \A t \in DOMAIN toolResult.items :
              AccountOwners[toolResult.items[t].account] = toolArg
        /\ (\A t \in DOMAIN rows : AccountOwners[rows[t].account_id] # toolArg)
              => toolResult.items = NoItems

\* the tool returned the transactions of one user and left out a recent
\* transaction of the other
C18_Witness ==
    /\ toolResult.status = "returned" /\ toolArg = 1
    /\ DOMAIN toolResult.items # {}
    /\ \E t \in DOMAIN rows :
          /\ AccountOwners[rows[t].account_id] = 2
          /\ ledgerDate[t] = 0
          /\ t \notin DOMAIN toolResult.items

\* C19: get_user_transactions raises ValueError when it is invoked with an
\* invalid user id: zero, a non-integer value, or the id of a user that
\* does not exist.  The ids of the model are integers, so the invalid ones
\* are zero and the id no user has.
C19_InvalidUserIdRaises ==
    (toolResult.status # "none" /\ toolArg \notin Users) =>
        toolResult.status = "ValueError"

\* C20: analysis generation is limited to once per 24 hours per user: under
\* any sequence or interleaving of generate_analysis_for_user calls, no two
\* AIAnalysis records of one user are created less than 24 hours apart.
C20_OncePer24Hours ==
    \A j, k \in DOMAIN analyses :
        (j # k /\ analyses[j].user_id = analyses[k].user_id
               /\ analyses[j].created_at <= analyses[k].created_at) =>
            analyses[k].created_at - analyses[j].created_at >= CooldownHours


\* C21: every completed transaction write has adjusted the balance exactly
\* once: a create has executed one balance write, which put its delta on the
\* account it references; an update has been handled by the pre-save handler
\* alone (no balance write, or the reversal and the new effect of its atomic
\* block), the post-save handler having seen created = False, so that no
\* update is adjusted for twice.
C21_ExactlyOneAdjustment ==
    \A p \in Procs :
        /\ (Completed(p) /\ kind[p] = "create") =>
              (created[p] /\ bw[p] = 1)
        /\ (Completed(p) /\ kind[p] = "update") =>
              (~ created[p] /\ bw[p] \in {0, 2})

\* C22: with transaction creates, updates and deletes executed one at a
\* time, whenever no request is in progress every account's balance equals
\* the balance the account was created with plus the sum of the signed
\* effects of the transactions that reference it now.
C22_BalanceTracksLedger ==
    Quiescent =>
        \A a \in Accounts : balance[a] - SignedSum(rows, a) = initial[a]

\* after a create of an EXPENSE, a create of an INCOME and the deletion of
\* the INCOME, the EXPENSE is what remains on an account created with
\* MaxInit
C22_Witness ==
    /\ Quiescent /\ started = MaxReq
    /\ \E p \in Procs : Completed(p) /\ kind[p] = "delete"
                          /\ inst[p].transaction_type = INCOME
    /\ \E t \in DOMAIN rows :
          /\ rows[t].transaction_type = EXPENSE
          /\ initial[rows[t].account_id] = MaxInit
          /\ balance[rows[t].account_id] = MaxInit - rows[t].amount

\* C23: an account edit (the form loaded, then submitted and saved)
\* interleaved with a transaction create, update or delete on the same
\* account does not lose the transaction's balance adjustment: once both
\* requests have completed, the account's balance is the balance it was
\* created with plus the effects of its transactions.
C23_EditKeepsAdjustment ==
    \A p, q \in Procs :
        (/\ Quiescent /\ ~ clash
         /\ Completed(p) /\ kind[p] = "account_edit"
         /\ Completed(q) /\ kind[q] \in {"create", "update", "delete"}
         /\ inst[q].account_id = inst[p].account_id) =>
            balance[inst[p].account_id] =
                initial[inst[p].account_id]
                + SignedSum(rows, inst[p].account_id)

\* C24: when two EXPENSE transactions on the same account are submitted
\* through the form at the same time, the insufficient-funds check holds
\* for the pair: they are not both accepted when the balance covers each
\* alone but not the two together, so that once both have completed the
\* balance, which was not negative when they arrived, is not negative.
C24_ConcurrentExpensesCovered ==
    \A p, q \in Procs :
        (/\ p # q
         /\ Completed(p) /\ kind[p] = "create"
         /\ Completed(q) /\ kind[q] = "create"
         /\ inst[p].transaction_type = EXPENSE
         /\ inst[q].transaction_type = EXPENSE
         /\ inst[p].account_id = inst[q].account_id
         /\ snapBal[p] = snapBal[q]
         /\ snapBal[p][inst[p].account_id] >= 0) =>
            balance[inst[p].account_id] >= 0

\* C25: the balance the insufficient-funds check of a submitted EXPENSE
\* uses is the selected account's balance minus the stored delta of the
\* edited transaction if and only if the selected account is the one the
\* transaction was stored on; for a transaction moved to another account,
\* and for a new one, it is the selected account's balance as it is.  The
\* submission is rejected exactly when that balance is less than the amount.
C25_AvailableBalanceOnEdit ==
    \A p \in Procs :
        (IsWrite(p) /\ inst[p].transaction_type = EXPENSE) =>
            LET a == inst[p].account_id
                same == kind[p] = "update" /\ Old(p).account_id = a
                available == IF same
                             THEN snapBal[p][a] - SignedEffect(Old(p))
                             ELSE snapBal[p][a]
            IN (outcome[p] = "invalid") <=> (available < inst[p].amount)

\* a rejected edit that moves an EXPENSE to an account that cannot cover it,
\* although the account together with the stored delta could
C25_Witness ==
    \E p \in Procs :
        /\ kind[p] = "update" /\ outcome[p] = "invalid"
        /\ inst[p].transaction_type = EXPENSE
        /\ Old(p).transaction_type = EXPENSE
        /\ Old(p).account_id # inst[p].account_id
        /\ snapBal[p][inst[p].account_id] < inst[p].amount
        /\ snapBal[p][inst[p].account_id] - SignedEffect(Old(p))
               >= inst[p].amount
        /\ rows = snapRows[p] /\ balance = snapBal[p]

\* C26: after an EXPENSE create or update that passed the form validation
\* and was saved with no other write in between, the balance of the account
\* the saved transaction references is greater than or equal to zero.
C26_AcceptedExpenseLeavesNonNegative ==
    \A p \in Procs :
        (Completed(p) /\ IsWrite(p) /\ inst[p].transaction_type = EXPENSE) =>
            /\ rows[inst[p].pk].account_id = inst[p].account_id
            /\ balance[rows[inst[p].pk].account_id] >= 0

\* an accepted edit turned an INCOME that was partly spent into an EXPENSE
\* on another account: the new account is at zero, the old one below
C26_Witness ==
    \E p \in Procs :
        /\ IsUpdate(p) /\ inst[p].transaction_type = EXPENSE
        /\ Old(p).transaction_type = INCOME
        /\ Old(p).account_id # inst[p].account_id
        /\ balance[inst[p].account_id] = 0
        /\ balance[Old(p).account_id] < 0

\* C27: starting from accounts created with non-negative balances, after
\* any sequence of creates and updates accepted by the form and deletes
\* through the delete view, one at a time, every account's balance is
\* non-negative.
C27_BalancesNeverNegative ==
    Quiescent => \A a \in Accounts : balance[a] >= 0

\* the transactions of table rws on accounts of users other than user_id
OthersTransactions(rws, user_id) ==
    {t \in DOMAIN rws : AccountOwners[rws[t].account_id] # user_id}

\* C28: a transaction update or delete request of one user changes no
\* transaction and no account balance of another user: the other users'
\* transactions and balances are, during and after the request, what they
\* were when it arrived.
C28_OtherUsersUntouched ==
    \A p \in Procs :
        kind[p] \in {"update", "delete"} =>
            /\ OthersTransactions(rows, user[p])
                   = OthersTransactions(snapRows[p], user[p])
            /\ \A t \in OthersTransactions(rows, user[p]) :
                   rows[t] = snapRows[p][t]
            /\ \A a \in DOMAIN balance :
                   AccountOwners[a] # user[p] => balance[a] = snapBal[p][a]

\* a user has completed an effect-changing edit of an own transaction while
\* the other user holds a transaction
C28_Witness ==
    \E p \in Procs :
        /\ IsUpdate(p) /\ bw[p] = 2
        /\ OthersTransactions(rows, user[p]) # {}
        /\ \E a \in DOMAIN balance :
              AccountOwners[a] # user[p] /\ balance[a] # initial[a]

\* C29: the delta of a transaction is +amount when its type is INCOME and
\* -amount for every other type value, whatever the amount; and the form's
\* _calculate_delta returns what the signal module's _calculate_delta
\* returns, for every amount and type.
C29_DeltaSignFromType ==
    deltaCall.called =>
        /\ deltaCall.transaction_type = INCOME =>
               deltaCall.signals = deltaCall.amount
        /\ deltaCall.transaction_type # INCOME =>
               deltaCall.signals + deltaCall.amount = 0
        /\ deltaCall.forms = deltaCall.signals

\* both functions were called with the largest amount and a value that is
\* neither INCOME nor EXPENSE
C29_Witness ==
    /\ deltaCall.called
    /\ deltaCall.transaction_type \notin Types
    /\ deltaCall.amount = MaxCents
    /\ deltaCall.forms = 0 - MaxCents

\* worker p is the one whose call of generate_analysis_for_user this step is
AiCalls(p) ==
    /\ calls' # calls
    /\ AiFree(p)
    /\ \A q \in Earlier(p) : ~ AiFree(q)

\* the live cache entry of the user names an analysis that is gone
StaleEntry(user_id) ==
    /\ user_id \in DOMAIN cache
    /\ now < cache[user_id].expires
    /\ cache[user_id].pk \notin DOMAIN analyses

\* a call that returns an existing analysis returns one created less than
\* 24 hours before the call
ReusedIsRecent(p) ==
    airesult'[p].source \in {"cache", "recent"} =>
        now - analyses[airesult'[p].pk].created_at < CooldownHours

\* a stale cache entry is removed by the call and is not what it returns
StaleIsDropped(p) ==
    StaleEntry(aiuser'[p]) =>
        /\ airesult'[p].pk # cache[aiuser'[p]].pk
        /\ \/ aiuser'[p] \notin DOMAIN cache'
           \/ cache'[aiuser'[p]].pk # cache[aiuser'[p]].pk

\* C30: whenever generate_analysis_for_user returns an analysis that already
\* existed (source cache or recent), that analysis was created less than 24
\* hours before the call; and a cache entry that names an analysis that no
\* longer exists is removed by the call and is never returned.
C30_ReuseWithinCooldown ==
    [][\A p \in Procs :
           AiCalls(p) => ReusedIsRecent(p) /\ StaleIsDropped(p)]_vars

\* the stale entry alone: it is removed and never returned
C30_StaleEntryDropped ==
    [][\A p \in Procs : AiCalls(p) => StaleIsDropped(p)]_vars

\* no reused analysis is two cooldowns old
C30_ReuseWithinTwoCooldowns ==
    [][\A p \in Procs :
           (AiCalls(p) /\ airesult'[p].source \in {"cache", "recent"}) =>
               now - analyses[airesult'[p].pk].created_at
                   < CooldownHours + CacheTtlHours]_vars

\* a call has just answered from the cache with an analysis that is well
\* over 24 hours old
C30_OldCacheHit ==
    \E p \in Procs :
        /\ airesult[p].source = "cache"
        /\ airesult[p].pk \in DOMAIN analyses
        /\ now - analyses[airesult[p].pk].created_at
               = CooldownHours + CacheTtlHours - 1

\* a live cache entry names a deleted analysis while a call can still be made
C30_StaleReached ==
    /\ calls < MaxCalls
    /\ \E u \in Users : StaleEntry(u)
====
